---- MODULE Spec2Model ----
(***************************************************************************)
(* A model of PurchasePlanForecaster (purchase_forecaster.py): the catalog *)
(* held by one forecaster object, its four loaders, its helper methods and *)
(* the call of generate_purchase_plan.                                     *)
(*                                                                         *)
(* Representation of Python values:                                        *)
(*   - a dict is a function from key names to values, so a key the dict    *)
(*     lacks is a name outside its DOMAIN;                                 *)
(*   - a value that may be None is a sequence: <<>> is None, <<v>> the     *)
(*     integer v; an optional float is <<>> or the float itself;           *)
(*   - a "YYYY-MM" month string is the pair <<year, month>>: string order  *)
(*     and equality of zero-padded months are those of the pairs;          *)
(*   - a float is an IEEE 754 binary64 number, as CPython has it: the pair *)
(*     <<M, k>> stands for M / 2^k, M a natural of any size kept as a      *)
(*     sequence of limbs, and every operation (+, -, *, /, math.sqrt,      *)
(*     int/int division, a decimal literal) gives its exact result rounded *)
(*     to 53 bits, to nearest and ties to even.  So int(0.7 * 90.0) is 62  *)
(*     here as it is in the program.  Only nonnegative floats in the       *)
(*     normal range occur.  sum() of floats adds from left to right, each  *)
(*     addition rounded (CPython up to 3.11).  x ** 2 is pow(x, 2.0) of    *)
(*     the C library, which is within one unit in the last place of the    *)
(*     square but need not round it correctly: it has the two floats that  *)
(*     enclose the exact square as its outcomes, and an operator that      *)
(*     depends on it gives the set of its outcomes;                        *)
(*   - confidence_score is in hundredths.                                  *)
(*                                                                         *)
(* The def line of generate_purchase_plan (line 181) is indented to the    *)
(* level of its own docstring and body (line 184 on), so Python rejects    *)
(* the definition with IndentationError ("expected an indented block       *)
(* after function definition on line 181"): the class has no method of     *)
(* that name that could run, and no statement of lines 185-276 is ever     *)
(* executed.  A call of generate_purchase_plan is therefore modelled as    *)
(* raising and leaving the forecaster as it was.  The loaders and the      *)
(* helper methods (lines 82-178) are modelled as their text defines them.  *)
(***************************************************************************)
EXTENDS Integers, Sequences, FiniteSets, TLC

None == <<>>

Max(a, b) == IF a >= b THEN a ELSE b
Min(a, b) == IF a <= b THEN a ELSE b

(***************************************************************************)
(* Naturals of any size: little-endian sequences of limbs of LimbBits      *)
(* bits, <<>> being zero and the last limb of a sequence nonzero.  The     *)
(* arithmetic is defined as functions, whose arguments are values.         *)
(***************************************************************************)
LimbBits == 14
Base == 2^LimbBits

Big == Seq(Nat)

\* limb i of a, zero beyond its length
Limb(a, i) == IF i >= 1 /\ i <= Len(a) THEN a[i] ELSE 0

\* a without its high zero limbs
Trim[a \in Big] ==
  LET used == {i \in 1..Len(a) : a[i] # 0}
  IN IF used = {} THEN <<>>
     ELSE SubSeq(a, 1, CHOOSE i \in used : \A j \in used : j <= i)

\* a machine integer n >= 0 as limbs, and back
NatToBig[n \in Nat] == Trim[<<n % Base, (n \div Base) % Base, n \div (Base * Base)>>]
BigToNat(a) == Limb(a, 1) + Base * Limb(a, 2) + Base * Base * Limb(a, 3)

\* a + b + c for c in {0, 1}: limb i receives a carry when a limb below it
\* overflows (or c is 1) and every limb in between is Base - 1
BigAdd[a \in Big, b \in Big, c \in {0, 1}] ==
  LET n     == Max(Len(a), Len(b)) + 1
      s     == [i \in 1..n |-> Limb(a, i) + Limb(b, i)]
      carry == [i \in 1..n |->
                  IF \/ c = 1 /\ \A k \in 1..(i - 1) : s[k] = Base - 1
                     \/ \E j \in 1..(i - 1) :
                          s[j] >= Base /\ \A k \in (j + 1)..(i - 1) : s[k] = Base - 1
                  THEN 1 ELSE 0]
  IN Trim[[i \in 1..n |-> (s[i] + carry[i]) % Base]]

\* a - b for a >= b: limb i lends when a limb below it is short and every limb
\* in between is equal
BigSub[a \in Big, b \in Big] ==
  LET borrow == [i \in 1..Len(a) |->
                   IF \E j \in 1..(i - 1) :
                        Limb(a, j) < Limb(b, j)
                        /\ \A k \in (j + 1)..(i - 1) : Limb(a, k) = Limb(b, k)
                   THEN 1 ELSE 0]
  IN Trim[[i \in 1..Len(a) |-> (a[i] - Limb(b, i) - borrow[i] + Base) % Base]]

\* a * s for a limb s
BigScale[a \in Big, s \in Nat] ==
  BigAdd[[i \in 1..Len(a) |-> (a[i] * s) % Base],
         <<0>> \o [i \in 1..Len(a) |-> (a[i] * s) \div Base], 0]

\* a * b for a of at most four limbs: the sums of the limb products of each
\* weight, which stay below 2^30, split into three limbs
BigMul[a \in Big, b \in Big] ==
  LET n   == Len(b) + 3
      col == [k \in 1..n |->
                Limb(a, 1) * Limb(b, k) + Limb(a, 2) * Limb(b, k - 1)
                + Limb(a, 3) * Limb(b, k - 2) + Limb(a, 4) * Limb(b, k - 3)]
      lo  == [k \in 1..n |-> col[k] % Base]
      mid == <<0>> \o [k \in 1..n |-> (col[k] \div Base) % Base]
      hi  == <<0, 0>> \o [k \in 1..n |-> col[k] \div (Base * Base)]
  IN BigAdd[BigAdd[lo, mid, 0], hi, 0]

\* a <= b: at the highest limb where they differ, that of a is the smaller
BigLeq[a \in Big, b \in Big] ==
  IF Len(a) # Len(b) THEN Len(a) < Len(b)
  ELSE LET diff == {i \in 1..Len(a) : a[i] # b[i]}
       IN diff = {} \/ LET i == CHOOSE i \in diff : \A j \in diff : j <= i
                       IN a[i] < b[i]

\* the number of bits of a limb n: 0 for 0
Bits(n) == Cardinality({b \in 0..(LimbBits - 1) : 2^b <= n})

BigBits(a) == IF a = <<>> THEN 0 ELSE LimbBits * (Len(a) - 1) + Bits(a[Len(a)])

\* a * 2^s: limb i takes the low bits of limb i - d of a and the high bits of
\* the limb below that one
BigShl[a \in Big, s \in Nat] ==
  LET d == s \div LimbBits
      r == s % LimbBits
  IN Trim[[i \in 1..(Len(a) + d + 1) |->
             ((Limb(a, i - d) * 2^r) % Base)
             + (Limb(a, i - d - 1) \div 2^(LimbBits - r))]]

\* a \div 2^s
BigShr[a \in Big, s \in Nat] ==
  LET d  == s \div LimbBits
      r  == s % LimbBits
      hi == IF d >= Len(a) THEN <<>> ELSE SubSeq(a, d + 1, Len(a))
  IN Trim[[i \in 1..Len(hi) |-> (hi[i] \div 2^r) + (Limb(hi, i + 1) % 2^r) * 2^(LimbBits - r)]]

\* a % 2^s # 0
LowBitsNonzero(a, s) ==
  LET d == s \div LimbBits
      r == s % LimbBits
  IN \/ \E i \in 1..Min(d, Len(a)) : a[i] # 0
     \/ d < Len(a) /\ a[d + 1] % 2^r # 0

\* bit i of a, bit 0 being the lowest
BigBit(a, i) ==
  IF i \div LimbBits >= Len(a) THEN 0
  ELSE (a[(i \div LimbBits) + 1] \div 2^(i % LimbBits)) % 2

\* the number of zero bits below the lowest one bit of a # 0
LowZeros(n) == Cardinality({z \in 1..(LimbBits - 1) : n % 2^z = 0})
BigLowZeros(a) ==
  LET i == CHOOSE i \in 1..Len(a) : a[i] # 0 /\ \A j \in 1..(i - 1) : a[j] = 0
  IN LimbBits * (i - 1) + LowZeros(a[i])

\* long division of a by d from limb i down, d having its highest limb at
\* least Base / 2 or being one limb: rem < d is the remainder of the limbs above
\* limb i and q the quotient of those limbs.  A quotient limb is estimated from
\* the two highest limbs of the running remainder and is at most 2 too large.
DivFrom[a \in Big, d \in Big, i \in Nat, rem \in Big, q \in Big] ==
  IF i = 0 THEN [q |-> q, r |-> rem]
  ELSE LET cur   == Trim[<<a[i]>> \o rem]
           n     == Len(d)
           est   == Min(Base - 1, (Limb(cur, n + 1) * Base + Limb(cur, n)) \div d[n])
           digit == IF BigLeq[BigScale[d, est], cur] THEN est
                    ELSE IF BigLeq[BigScale[d, est - 1], cur] THEN est - 1
                    ELSE est - 2
       IN DivFrom[a, d, i - 1, BigSub[cur, BigScale[d, digit]], <<digit>> \o q]

\* [q |-> a \div d, inexact |-> whether a % d # 0] for d # 0; a and d are first
\* scaled for the highest limb of d to be at least Base / 2
BigDivMod[a \in Big, d \in Big] ==
  LET sh == LimbBits - Bits(d[Len(d)])
      a1 == BigShl[a, sh]
      d1 == BigShl[d, sh]
      i0 == Len(a1) - Len(d1) + 1
  IN IF i0 < 1 THEN [q |-> <<>>, inexact |-> a # <<>>]
     ELSE LET s == DivFrom[a1, d1, i0, SubSeq(a1, i0 + 1, Len(a1)), <<>>]
          IN [q |-> Trim[s.q], inexact |-> s.r # <<>>]

\* the integer square root of t < 2^28, its high and then its low seven bits
Root14(t) ==
  LET h == Cardinality({h \in 1..127 : (h * 128) * (h * 128) <= t})
  IN h * 128 + Cardinality({l \in 1..127 : (h * 128 + l) * (h * 128 + l) <= t})

\* the integer square root of a by Newton's iteration from x, x being at least
\* the root: the next value (x + a \div x) \div 2 is below x until x is the root
IsqrtFrom[a \in Big, x \in Big] ==
  LET q == BigDivMod[a, x].q
  IN IF BigLeq[x, q] THEN x ELSE IsqrtFrom[a, BigShr[BigAdd[x, q, 0], 1]]

\* [root |-> the integer square root of a, inexact |-> whether a is no square];
\* the iteration starts just above the root of the highest 28 bits of a
BigIsqrt[a \in Big] ==
  LET sh == Max(0, (BigBits(a) - 2 * LimbBits + 1) \div 2)
      r  == IF a = <<>> THEN <<>>
            ELSE IsqrtFrom[a, BigShl[NatToBig[Root14(BigToNat(BigShr[a, 2 * sh])) + 1],
                                     sh]]
  IN [root |-> r, inexact |-> BigMul[r, r] # a]

(***************************************************************************)
(* Python floats (IEEE 754 binary64), nonnegative and in the normal range: *)
(* <<M, k>> is M / 2^k, with M odd or k = 0.  Every operation rounds its   *)
(* exact result to MantBits bits, to nearest and a tie to the even one.    *)
(***************************************************************************)
MantBits == 53

Float == Big \X Nat

FZero == << <<>>, 0 >>

\* M / 2^k in the form with M odd or k = 0
Canon[M \in Big, k \in Nat] ==
  IF M = <<>> THEN FZero
  ELSE LET z == Min(k, BigLowZeros(M)) IN <<BigShr[M, z], k - z>>

\* N / 2^k rounded
RoundBig[N \in Big, k \in Nat] ==
  LET b == BigBits(N)
  IN IF b <= MantBits THEN Canon[N, k]
     ELSE LET e  == b - MantBits
              m  == BigShr[N, e]
              up == /\ BigBit(N, e - 1) = 1
                    /\ (LowBitsNonzero(N, e - 1) \/ BigBit(m, 0) = 1)
              m1 == IF up THEN BigAdd[m, <<>>, 1] ELSE m
          IN IF e >= k THEN <<BigShl[m1, e - k], 0>> ELSE Canon[m1, k - e]

\* N / 2^k cut and raised to MantBits bits: the two floats that enclose the
\* exact value, or the value alone when it is a float
RoundBigEither[N \in Big, k \in Nat] ==
  LET b == BigBits(N)
  IN IF b <= MantBits THEN {Canon[N, k]}
     ELSE LET e  == b - MantBits
              m  == BigShr[N, e]
              m1 == BigAdd[m, <<>>, 1]
              lo == IF e >= k THEN <<BigShl[m, e - k], 0>> ELSE Canon[m, k - e]
              hi == IF e >= k THEN <<BigShl[m1, e - k], 0>> ELSE Canon[m1, k - e]
          IN IF LowBitsNonzero(N, e) THEN {lo, hi} ELSE {lo}

\* N / D / 2^k rounded: the quotient is taken to at least MantBits + 2 bits and
\* a nonzero remainder is kept as a low one bit
RoundRatio[N \in Big, D \in Big, k \in Nat] ==
  IF N = <<>> THEN FZero
  ELSE IF D = <<1>> THEN RoundBig[N, k]
  ELSE LET s  == Max(0, MantBits + 3 - BigBits(N) + BigBits(D))
           dm == BigDivMod[BigShl[N, s], D]
       IN RoundBig[BigAdd[dm.q, dm.q, IF dm.inexact THEN 1 ELSE 0], k + s + 1]

\* float(n) for an integer n >= 0, and the float of the quotient or decimal
\* literal n/d
FromInt[n \in Nat] == <<NatToBig[n], 0>>
FromRat[n \in Nat, d \in Nat] == RoundRatio[NatToBig[n], NatToBig[d], 0]

FLeq[x \in Float, y \in Float] ==
  LET k == Max(x[2], y[2])
  IN BigLeq[BigShl[x[1], k - x[2]], BigShl[y[1], k - y[2]]]
FMax[x \in Float, y \in Float] == IF FLeq[y, x] THEN x ELSE y

FAdd[x \in Float, y \in Float] ==
  LET k == Max(x[2], y[2])
  IN RoundBig[BigAdd[BigShl[x[1], k - x[2]], BigShl[y[1], k - y[2]], 0], k]

\* |x - y|
FAbsDiff[x \in Float, y \in Float] ==
  LET k == Max(x[2], y[2])
      a == BigShl[x[1], k - x[2]]
      b == BigShl[y[1], k - y[2]]
  IN RoundBig[IF BigLeq[b, a] THEN BigSub[a, b] ELSE BigSub[b, a], k]

FMul[x \in Float, y \in Float] == RoundBig[BigMul[x[1], y[1]], x[2] + y[2]]

FDiv[x \in Float, y \in Float] == RoundRatio[BigShl[x[1], y[2]], y[1], x[2]]

\* math.sqrt(x): the root of M * 2^j, j making the exponent even and the root
\* at least MantBits + 2 bits long
FSqrt[x \in Float] ==
  IF x[1] = <<>> THEN FZero
  ELSE LET j0 == Max(0, 2 * (MantBits + 2) - BigBits(x[1]))
           j  == IF (x[2] + j0) % 2 = 0 THEN j0 ELSE j0 + 1
           rt == BigIsqrt[BigShl[x[1], j]]
       IN RoundBig[BigAdd[rt.root, rt.root, IF rt.inexact THEN 1 ELSE 0],
                   ((x[2] + j) \div 2) + 1]

\* int(x)
FloatFloor[x \in Float] == BigToNat(BigShr[x[1], x[2]])


(***************************************************************************)
(* Program constants.                                                      *)
(***************************************************************************)
\* _Z_BY_SERVICE, in thousandths, keyed by the service level in hundredths
Z_BY_SERVICE == [s \in {90, 95, 98, 99} |->
                   CASE s = 90 -> 1282 [] s = 95 -> 1645
                     [] s = 98 -> 2054 [] s = 99 -> 2326]
\* the trailing window [-12:] of _hist_daily_stats
HistWindow == 12
\* days per month (x / 30.0)
DaysPerMonth == 30
\* the dataclass default of ItemParameters.max_stock_cover_months (2.0)
DefaultCover == 2

(***************************************************************************)
(* Demand estimator.                                                       *)
(***************************************************************************)
\* sorted(rows, key=lambda r: r.month): a stable insertion sort on the month.
MonthLeq(a, b) == a[1] < b[1] \/ (a[1] = b[1] /\ a[2] <= b[2])

RECURSIVE InsertByMonth(_, _)
InsertByMonth(sorted, r) ==
  IF sorted = <<>> THEN <<r>>
  ELSE LET last == sorted[Len(sorted)]
       IN IF MonthLeq(last.month, r.month) THEN Append(sorted, r)
          ELSE Append(InsertByMonth(SubSeq(sorted, 1, Len(sorted) - 1), r), last)

RECURSIVE SortByMonth(_)
SortByMonth(rows) ==
  IF rows = <<>> THEN <<>>
  ELSE InsertByMonth(SortByMonth(SubSeq(rows, 1, Len(rows) - 1)), rows[Len(rows)])

\* rows[-12:]
Trailing(rows, k) ==
  IF Len(rows) <= k THEN rows ELSE SubSeq(rows, Len(rows) - k + 1, Len(rows))

RECURSIVE SumSeq(_)
SumSeq(xs) == IF xs = <<>> THEN 0 ELSE Head(xs) + SumSeq(Tail(xs))

\* sum(xs[1..n]) of floats, added from the left: ((0 + xs[1]) + xs[2]) + ...
RECURSIVE FSum(_, _)
FSum(xs, n) == IF n = 0 THEN FZero ELSE FAdd[FSum(xs, n - 1), xs[n]]

\* |x - mean_m| for an integer x
AbsDev(x, mean_m) == FAbsDiff[FromInt[x], mean_m]

\* d ** 2 for a float d: Python computes it as pow(d, 2.0) of the C library,
\* which is accurate to within one unit in the last place but need not round
\* correctly (glibc returns 239654.75206611573 for 489.54545454545456 ** 2,
\* whose rounded square is 239654.7520661157).  The outcomes are the two
\* floats that enclose the exact square, or the square alone when it is a
\* float.  The sign of d plays no part.
PowSquared(d) == RoundBigEither[BigMul[d[1], d[1]], 2 * d[2]]

\* (x - mean_m) ** 2 for an integer x: the set of its outcomes
SquaredDev(x, mean_m) == PowSquared(AbsDev(x, mean_m))

\* pow over one run: a function, so equal deviations have equal squares.  Each
\* table gives every deviation of devs one of its outcomes.
RECURSIVE PowTables(_)
PowTables(devs) ==
  IF devs = {} THEN {[d \in {} |-> FZero]}
  ELSE LET d == CHOOSE d \in devs : TRUE
       IN {t @@ (d :> v) : t \in PowTables(devs \ {d}), v \in PowSquared(d)}

\* _hist_daily_stats: (mean_d, std_d), the daily mean and standard deviation of
\* the item's trailing 12 months of sales: the set of the pairs the call can
\* return, one for each table of pow.
hist_daily_stats(history, item_id) ==
  LET rows == SelectSeq(history, LAMBDA r : r.item_id = item_id)
  IN IF rows = <<>> THEN {[mean |-> FromInt[1], std |-> FromRat[3, 10]]}
     ELSE
       LET win     == Trailing(SortByMonth(rows), HistWindow)
           monthly == [i \in 1..Len(win) |-> Max(0, win[i].actual_sales_qty)]
           n       == Len(monthly)
           mean_m  == FromRat[SumSeq(monthly), n]
           devs    == [i \in 1..n |-> AbsDev(monthly[i], mean_m)]
           var(t)  == FDiv[FSum([i \in 1..n |-> t[devs[i]]], n), FromInt[n - 1]]
           mean_d  == FMax[FDiv[mean_m, FromInt[DaysPerMonth]], FromRat[1, 10]]
           std_d(std_m) == FMax[FDiv[std_m, FromInt[DaysPerMonth]],
                                FMul[FromRat[5, 100], mean_d]]
       IN IF n > 1
          THEN {[mean |-> mean_d, std |-> std_d(FSqrt[var(t)])] :
                  t \in PowTables({devs[i] : i \in 1..n})}
          ELSE {[mean |-> mean_d, std |-> std_d(FMul[FromRat[1, 4], mean_m])]}

(***************************************************************************)
(* Order policy helpers.                                                   *)
(***************************************************************************)
\* as None; see parsers._nan_to_none_series).
num_or_none(x) == x

\* x > 0 for a float x
FPos(x) == x[1] # <<>>

\* int(max_cover * md)
CoverCapOf(max_cover, md) == FloatFloor[FMul[max_cover, md]]

\* months = shelf_days / 30.0, then int(months * md)
ShelfCapOf(shelf_days, md) ==
  FloatFloor[FMul[FDiv[shelf_days, FromInt[DaysPerMonth]], md]]

\* Mutant of cap_by_cover_and_shelf: the most restrictive cap is applied.
cap_by_least_cap(raw_qty, p, monthly_demand) ==
  LET qty  == Max(0, raw_qty)
      caps == (IF p.max_stock_cover_months # None /\ FPos(p.max_stock_cover_months)
               THEN {CoverCapOf(p.max_stock_cover_months, monthly_demand)} ELSE {})
              \cup
              (IF p.shelf_life_days # None /\ FPos(p.shelf_life_days)
               THEN {ShelfCapOf(p.shelf_life_days, monthly_demand)} ELSE {})
  IN IF ~FPos(monthly_demand) \/ caps = {} THEN qty
     ELSE Max(0, Min(qty, CHOOSE c \in caps : \A d \in caps : c <= d))

\* _cap_by_cover_and_shelf(raw_qty, p, monthly_demand); monthly_demand is a
\* float.
cap_by_cover_and_shelf(raw_qty, p, monthly_demand) ==
  LET qty        == Max(0, raw_qty)
      md         == num_or_none(monthly_demand)
      max_cover  == num_or_none(p.max_stock_cover_months)
      shelf_days == num_or_none(p.shelf_life_days)
      cover_caps == IF max_cover # None /\ FPos(max_cover)
                    THEN {CoverCapOf(max_cover, md)} ELSE {}
      shelf_caps == IF shelf_days # None /\ FPos(shelf_days)
                    THEN {ShelfCapOf(shelf_days, md)} ELSE {}
      caps       == cover_caps \cup shelf_caps
  IN IF md = None \/ ~FPos(md) THEN qty
     ELSE IF caps = {} THEN qty
     ELSE LET top == CHOOSE c \in caps : \A d \in caps : d <= c
          IN Max(0, Min(qty, top))

\* x or dflt, for an optional integer x
OrElse(x, dflt) == IF x = None \/ x[1] = 0 THEN dflt ELSE x[1]

\* Mutant of round_to_moq_multiple: a whole pack is always added.
round_up_extra_pack(qty, moq, multiple) ==
  IF qty <= 0 THEN 0
  ELSE LET mult == Max(1, OrElse(multiple, 1))
       IN Max(((qty \div mult) + 1) * mult, Max(0, OrElse(moq, 0)))

\* _round_to_moq_multiple(qty, moq, multiple)
round_to_moq_multiple(qty, moq, multiple) ==
  IF qty <= 0 THEN 0
  ELSE LET mult    == Max(1, OrElse(multiple, 1))
           m       == Max(0, OrElse(moq, 0))
           rounded == ((qty + mult - 1) \div mult) * mult
       IN Max(rounded, m)

\* Mutant of FirstMaxConfidence: the last maximal element.
LastMaxConfidence(fs) ==
  LET i == CHOOSE i \in 1..Len(fs) :
             /\ \A j \in 1..Len(fs) : fs[j].confidence_score <= fs[i].confidence_score
             /\ \A j \in (i + 1)..Len(fs) : fs[j].confidence_score < fs[i].confidence_score
  IN fs[i]

\* max(seq, key=lambda f: f.confidence_score): the first maximal element.
FirstMaxConfidence(fs) ==
  LET i == CHOOSE i \in 1..Len(fs) :
             /\ \A j \in 1..Len(fs) : fs[j].confidence_score <= fs[i].confidence_score
             /\ \A j \in 1..(i - 1) : fs[j].confidence_score < fs[i].confidence_score
  IN fs[i]

\* _pick_monthly_forecast(item_id, month): <<>> (None) or <<the record>>.
pick_monthly_forecast(fcsts, item_id, month) ==
  LET pool == IF item_id \in DOMAIN fcsts THEN fcsts[item_id] ELSE <<>>
  IN IF pool = <<>> THEN None
     ELSE LET exact == SelectSeq(pool, LAMBDA f : f.month = month)
          IN <<FirstMaxConfidence(IF exact # <<>> THEN exact ELSE pool)>>

\* _cap_by_cover_and_shelf(raw, p, monthly_expected), then
\* _round_to_moq_multiple(capped, p.minimum_order_qty, p.order_multiple): the
\* two helpers chained, the result of the first being the qty of the second.
OrderQty(raw, p, monthly_expected) ==
  round_to_moq_multiple(cap_by_cover_and_shelf(raw, p, monthly_expected),
                        p.minimum_order_qty, p.order_multiple)


(***************************************************************************)
(* Records: the dataclasses and their construction from a dict.            *)
(***************************************************************************)
HistoricalSalesDataFields ==
  {"month", "item_id", "item_name", "actual_sales_qty", "stock_available",
   "lost_sales_qty", "unit_price", "category"}
MonthlySalesForecastFields ==
  {"month", "forecasted_sales_qty", "forecast_source", "confidence_score"}
ItemParametersRequired ==
  {"item_id", "item_name", "supplier", "order_lead_time_days", "minimum_order_qty",
   "order_multiple", "unit_cost", "shelf_life_days", "safety_stock_days"}
\* the fields with a default: max_stock_cover_months = 2.0, category = None,
\* segment = None
ItemParametersDefaults ==
  [max_stock_cover_months |-> FromInt[DefaultCover], category |-> None, segment |-> None]
CurrentInventoryFields ==
  {"item_id", "current_stock_qty", "in_transit_qty", "in_transit_arrival_date",
   "committed_qty"}

\* Cls( **d ) succeeds: every field without a default is given, no unknown key is.
Constructs(d, required, defaults) ==
  /\ required \subseteq DOMAIN d
  /\ DOMAIN d \subseteq required \cup DOMAIN defaults

\* Cls( **d ): the given fields, the defaults for the others.
Construct(d, required, defaults) ==
  [f \in required \cup DOMAIN defaults |-> IF f \in DOMAIN d THEN d[f] ELSE defaults[f]]

NoDefaults == [f \in {} |-> None]

(***************************************************************************)
(* Loaders.  Each returns the collection after the call and whether the    *)
(* call raised.                                                            *)
(***************************************************************************)
\* self.sales_history = [HistoricalSalesData( **x ) for x in data]: the list is
\* built before it is assigned.
load_sales_history(history, data) ==
  IF \A i \in 1..Len(data) : Constructs(data[i], HistoricalSalesDataFields, NoDefaults)
  THEN [value  |-> [i \in 1..Len(data) |->
                      Construct(data[i], HistoricalSalesDataFields, NoDefaults)],
        raised |-> FALSE]
  ELSE [value |-> history, raised |-> TRUE]

\* item_params[key] = rec, for an insertion-ordered dict kept as the sequence
\* of its values: an existing key keeps its place, a new one goes last.
DictSet(params, rec) ==
  IF \E i \in 1..Len(params) : params[i].item_id = rec.item_id
  THEN [i \in 1..Len(params) |->
          IF params[i].item_id = rec.item_id THEN rec ELSE params[i]]
  ELSE Append(params, rec)

\* for d in data: self.item_params[d["item_id"]] = ItemParameters( **d )
RECURSIVE load_item_parameters(_, _)
load_item_parameters(params, data) ==
  IF data = <<>> THEN [value |-> params, raised |-> FALSE]
  ELSE IF ~Constructs(Head(data), ItemParametersRequired, ItemParametersDefaults)
       THEN [value |-> params, raised |-> TRUE]
       ELSE load_item_parameters(
              DictSet(params, Construct(Head(data), ItemParametersRequired,
                                        ItemParametersDefaults)),
              Tail(data))

\* Mutant of DictPut: the dict is replaced by one holding the new key only.
DictPutOnly(dict, key, rec) == [k \in {key} |-> rec]

\* inventory[key] = rec, for a dict that is only looked up by key
DictPut(dict, key, rec) ==
  [k \in DOMAIN dict \cup {key} |-> IF k = key THEN rec ELSE dict[k]]

\* for d in data: self.current_inventory[d["item_id"]] = CurrentInventory( **d )
RECURSIVE load_current_inventory(_, _)
load_current_inventory(inventory, data) ==
  IF data = <<>> THEN [value |-> inventory, raised |-> FALSE]
  ELSE IF ~Constructs(Head(data), CurrentInventoryFields, NoDefaults)
       THEN [value |-> inventory, raised |-> TRUE]
       ELSE load_current_inventory(
              DictPut(inventory, Head(data).item_id,
                      Construct(Head(data), CurrentInventoryFields, NoDefaults)),
              Tail(data))

\* for k, v in data.items():
\*     self.sales_forecasts_n12[k] = [MonthlySalesForecast( **f ) for f in v]
\* data.items() is the sequence of <<k, v>> pairs in dict order.
RECURSIVE load_sales_forecasts_n12(_, _)
load_sales_forecasts_n12(fcsts, data) ==
  IF data = <<>> THEN [value |-> fcsts, raised |-> FALSE]
  ELSE LET k == Head(data)[1]
           v == Head(data)[2]
       IN IF \E i \in 1..Len(v) : ~Constructs(v[i], MonthlySalesForecastFields, NoDefaults)
          THEN [value |-> fcsts, raised |-> TRUE]
          ELSE load_sales_forecasts_n12(
                 DictPut(fcsts, k, [i \in 1..Len(v) |->
                           Construct(v[i], MonthlySalesForecastFields, NoDefaults)]),
                 Tail(data))


(***************************************************************************)
(* Inputs: the batches handed to the loaders and the arguments of          *)
(* generate_purchase_plan.                                                 *)
(***************************************************************************)
\* the longest horizon planned
MaxMonths == 2
\* the number of calls made on one forecaster
MaxCalls == 3

ItemDict(id, lead, moq, mult, shelf) ==
  [item_id |-> id, item_name |-> "item", supplier |-> "acme",
   order_lead_time_days |-> lead, minimum_order_qty |-> moq, order_multiple |-> mult,
   unit_cost |-> 10, shelf_life_days |-> shelf, safety_stock_days |-> <<7>>]

WithCover(d, cover) == d @@ [max_stock_cover_months |-> cover]

\* a record that lacks the required field unit_cost
WithoutCost(d) == [f \in DOMAIN d \ {"unit_cost"} |-> d[f]]

\* max_stock_cover_months left out: the dataclass default applies
ItemOmit(id)  == ItemDict(id, <<60>>, <<50>>, <<25>>, None)
\* no cover, no shelf life, no order constraints
ItemNoCap(id) == WithCover(ItemDict(id, <<60>>, None, None, None), None)
\* half a month of cover, packs of 3, at least 20
ItemTight(id) == WithCover(ItemDict(id, <<0>>, <<20>>, <<3>>, None), FromRat[1, 2])
\* one month of cover and 45 days of shelf life
ItemBoth(id)  == WithCover(ItemDict(id, <<15>>, <<0>>, <<1>>, FromInt[45]), FromInt[1])

ItemBatches ==
  { <<ItemOmit("A")>>,
    <<ItemNoCap("A"), ItemBoth("B")>>,
    <<ItemBoth("B"), ItemTight("A")>>,
    <<ItemTight("B"), WithoutCost(ItemOmit("A")), ItemBoth("B")>> }

InvDict(id, stock, transit, committed) ==
  [item_id |-> id, current_stock_qty |-> stock, in_transit_qty |-> transit,
   in_transit_arrival_date |-> None, committed_qty |-> committed]

\* a record that lacks the required field committed_qty
WithoutCommitted(d) == [f \in DOMAIN d \ {"committed_qty"} |-> d[f]]

InventoryBatches ==
  { <<InvDict("A", 40, 10, 5), InvDict("B", 0, 60, 0)>>,
    <<InvDict("C", 5, 0, 0), WithoutCommitted(InvDict("B", 9, 9, 9)), InvDict("A", 1, 1, 1)>> }

SaleDict(month, id, qty) ==
  [month |-> month, item_id |-> id, item_name |-> "item", actual_sales_qty |-> qty,
   stock_available |-> TRUE, lost_sales_qty |-> 0, unit_price |-> 12, category |-> "c"]

\* a record that lacks the required field actual_sales_qty
WithoutQty(d) == [f \in DOMAIN d \ {"actual_sales_qty"} |-> d[f]]

HistoryBatches ==
  { <<SaleDict(<<2024, 12>>, "A", 360), SaleDict(<<2024, 11>>, "B", 25),
      SaleDict(<<2024, 10>>, "A", 300), SaleDict(<<2024, 11>>, "C", 90)>>,
    <<SaleDict(<<2024, 11>>, "A", 100), WithoutQty(SaleDict(<<2024, 12>>, "A", 100))>>,
    \* one month of 123 (123 / 30.0 * 30.0 is below 123), and months whose mean
    \* is a half (61.5 / 30.0 * 30.0 is below 61.5)
    <<SaleDict(<<2024, 11>>, "A", 123), SaleDict(<<2024, 10>>, "B", 61),
      SaleDict(<<2024, 11>>, "B", 62)>>,
    \* three months whose squared deviations are not floats: _hist_daily_stats
    \* has more than one outcome (std_d 62.78620100815972 with glibc's pow,
    \* 62.78620100815973 with correctly rounded squares)
    <<SaleDict(<<2024, 1>>, "A", 7095), SaleDict(<<2024, 2>>, "A", 4248),
      SaleDict(<<2024, 3>>, "A", 3535)>> }

FcstDict(month, qty, score) ==
  [month |-> month, forecasted_sales_qty |-> qty, forecast_source |-> "plan",
   confidence_score |-> score]

\* a record that lacks the required field confidence_score
WithoutScore(d) == [f \in DOMAIN d \ {"confidence_score"} |-> d[f]]

ForecastBatches ==
  { << <<"A", <<FcstDict(<<2024, 12>>, 25, 70), FcstDict(<<2025, 1>>, 0, 90),
                FcstDict(<<2025, 1>>, 80, 90)>> >>,
       <<"C", <<FcstDict(<<2024, 12>>, 10, 50)>> >> >>,
    << <<"B", <<FcstDict(<<2025, 3>>, 45, 60)>> >>,
       <<"A", <<WithoutScore(FcstDict(<<2024, 12>>, 1, 1))>> >> >> }

\* the arguments of a call: service_level in hundredths (50: a level
\* _Z_BY_SERVICE does not list)
PlanArgs ==
  { [start_month |-> <<2024, 12>>, num_months |-> n, service_level |-> s,
     review_period_days |-> c[1], include_in_transit |-> c[2]] :
    n \in 1..MaxMonths, s \in {90, 95, 98, 99, 50},
    c \in { <<30, TRUE>>, <<7, FALSE>> } }

(***************************************************************************)
(* The forecaster.                                                         *)
(***************************************************************************)
VARIABLES
  sales_history,        \* self.sales_history: a list
  item_params,          \* self.item_params: a dict in insertion order
  current_inventory,    \* self.current_inventory: a dict
  sales_forecasts_n12,  \* self.sales_forecasts_n12: a dict of lists
  forecasts,            \* self.forecasts: the rows of the last plan
  last,                 \* the last call: its name, arguments, whether it raised,
                        \* and whether it repeats the call before it
  calls,                \* the number of calls made
  probe                 \* one application of a helper: its inputs and result

vars == <<sales_history, item_params, current_inventory, sales_forecasts_n12,
          forecasts, last, calls, probe>>

NoInventory == [k \in {} |-> None]

NoProbe == [fn |-> "none"]

\* __init__
Init ==
  /\ sales_history = <<>>
  /\ item_params = <<>>
  /\ current_inventory = NoInventory
  /\ sales_forecasts_n12 = NoInventory
  /\ forecasts = <<>>
  /\ last = [op |-> "__init__", args |-> <<>>, raised |-> FALSE, repeat |-> FALSE]
  /\ calls = 0
  /\ probe = NoProbe

Called(op, args, raised) ==
  /\ calls < MaxCalls
  /\ calls' = calls + 1
  /\ last' = [op |-> op, args |-> args, raised |-> raised,
              repeat |-> (last.op = op /\ last.args = args)]
  /\ UNCHANGED probe

LoadSalesHistory ==
  \E data \in HistoryBatches :
    LET r == load_sales_history(sales_history, data)
    IN /\ Called("load_sales_history", data, r.raised)
       /\ sales_history' = r.value
       /\ UNCHANGED <<item_params, current_inventory, sales_forecasts_n12, forecasts>>

LoadItemParameters ==
  \E data \in ItemBatches :
    LET r == load_item_parameters(item_params, data)
    IN /\ Called("load_item_parameters", data, r.raised)
       /\ item_params' = r.value
       /\ UNCHANGED <<sales_history, current_inventory, sales_forecasts_n12, forecasts>>

LoadCurrentInventory ==
  \E data \in InventoryBatches :
    LET r == load_current_inventory(current_inventory, data)
    IN /\ Called("load_current_inventory", data, r.raised)
       /\ current_inventory' = r.value
       /\ UNCHANGED <<sales_history, item_params, sales_forecasts_n12, forecasts>>

LoadSalesForecasts ==
  \E data \in ForecastBatches :
    LET r == load_sales_forecasts_n12(sales_forecasts_n12, data)
    IN /\ Called("load_sales_forecasts_n12", data, r.raised)
       /\ sales_forecasts_n12' = r.value
       /\ UNCHANGED <<sales_history, item_params, current_inventory, forecasts>>

\* pf.generate_purchase_plan(start_month, num_months, service_level,
\* review_period_days, include_in_transit): the definition at line 181 is
\* rejected (IndentationError), so the call raises before any statement of the
\* method runs; self.forecasts keeps the value __init__ gave it.
GeneratePurchasePlan ==
  \E a \in PlanArgs :
    /\ Called("generate_purchase_plan", a, TRUE)
    /\ UNCHANGED <<sales_history, item_params, current_inventory,
                   sales_forecasts_n12, forecasts>>

Next ==
  \/ LoadSalesHistory
  \/ LoadItemParameters
  \/ LoadCurrentInventory
  \/ LoadSalesForecasts
  \/ GeneratePurchasePlan

Spec == Init /\ [][Next]_vars


(***************************************************************************)
(* Properties of the plan.  Each is stated of the output of a call of      *)
(* generate_purchase_plan: the call returns, and self.forecasts holds the  *)
(* rows it returned.                                                       *)
(***************************************************************************)
\* The last call was generate_purchase_plan.
Planned == last.op = "generate_purchase_plan"
\* It planned a catalog that has items.
PlannedItems == Planned /\ item_params # <<>>
\* It returned: forecasts is its output.
HasOutput == Planned /\ ~last.raised

Keys(params) == {params[i].item_id : i \in 1..Len(params)}
RowsOf(id) == SelectSeq(forecasts, LAMBDA r : r.item_id = id)
RowItems == {forecasts[k].item_id : k \in 1..Len(forecasts)}
MonthIndex(ym) == 12 * ym[1] + ym[2] - 1

C4_RowsPerItemAndMonths ==
  Planned =>
    \A id \in Keys(item_params) :
      LET rs == RowsOf(id)
      IN /\ Len(rs) = last.args.num_months
         /\ \A k \in 1..Len(rs) :
              /\ rs[k].forecast_month[2] \in 1..12
              /\ MonthIndex(rs[k].forecast_month)
                   = MonthIndex(last.args.start_month) + (k - 1)

C6_FailedLoadLeavesCatalog ==
  [][(calls' = calls + 1 /\ last'.raised)
       => UNCHANGED <<sales_history, item_params, current_inventory,
                      sales_forecasts_n12>>]_vars

\* An item with no inventory record, no sales history and no forecast pool.
Bare(id) ==
  /\ id \notin DOMAIN current_inventory
  /\ id \notin DOMAIN sales_forecasts_n12
  /\ \A i \in 1..Len(sales_history) : sales_history[i].item_id # id

\* C7: the run completes without error and the item_ids of the output are
\* exactly the keys of item_params; an item of item_params with no inventory,
\* history or forecasts still has num_months rows, opening at zero stock and
\* selling the fallback 30 x 1.0 a month.
C7_RowsFollowItemParams ==
  Planned =>
    /\ ~last.raised
    /\ RowItems = Keys(item_params)
    /\ \A id \in Keys(item_params) :
         Bare(id) =>
           LET rs == RowsOf(id)
           IN /\ Len(rs) = last.args.num_months
              /\ rs[1].opening_inventory_units = 0
              /\ \A k \in 1..Len(rs) : rs[k].forecasted_sales_units = 30

\* C8: every item has a first row, which opens at current_stock_qty +
\* in_transit_qty of the item's inventory record when include_in_transit is
\* true and at current_stock_qty alone when it is false; committed_qty plays
\* no part.
C8_FirstOpening ==
  Planned =>
    \A id \in Keys(item_params) \cap DOMAIN current_inventory :
      /\ RowsOf(id) # <<>>
      /\ RowsOf(id)[1].opening_inventory_units
           = current_inventory[id].current_stock_qty
             + (IF last.args.include_in_transit
                THEN current_inventory[id].in_transit_qty ELSE 0)

\* The mean daily demand of an item: the mean of _hist_daily_stats, which is
\* the same in every outcome of the call (pow bears on the deviation only).
MeanDaily(id) == (CHOOSE st \in hist_daily_stats(sales_history, id) : TRUE).mean

\* The least whole number not below a float: the rounding the claims apply to
\* S - available.
FloatCeil[x \in Float] == FloatFloor[x] + (IF LowBitsNonzero(x[1], x[2]) THEN 1 ELSE 0)

\* The whole number nearest to a float, a tie going to the even one: the
\* rounding the claims apply to the monthly expected demand.
FloatRound[x \in Float] ==
  LET f == FloatFloor[x]
  IN IF x[2] = 0 \/ BigBit(x[1], x[2] - 1) = 0 THEN f
     ELSE IF LowBitsNonzero(x[1], x[2] - 1) THEN f + 1
     ELSE IF f % 2 = 0 THEN f ELSE f + 1

\* The monthly expected demand of an item in a month as the claims define it:
\* max(q, 20 x mean daily demand), q being the quantity of the forecast record
\* _pick_monthly_forecast selects, or 30 x mean daily demand when the item has
\* no forecast record; the mean is that of _hist_daily_stats and the products
\* are floats.
ExpectedDemand(id, month) ==
  LET f      == pick_monthly_forecast(sales_forecasts_n12, id, month)
      mean_d == MeanDaily(id)
      q      == IF f # None THEN FromInt[f[1].forecasted_sales_qty]
                ELSE FMul[mean_d, FromInt[30]]
      guard  == FMul[mean_d, FromInt[20]]
  IN IF FLeq[guard, q] THEN q ELSE guard

\* The stock available at plan start as the claims define it: on-hand plus, when
\* include_in_transit is true, in-transit stock, zero for an item with no
\* inventory record.
StartStock(id) ==
  IF id \in DOMAIN current_inventory
  THEN Max(0, current_inventory[id].current_stock_qty
              + (IF last.args.include_in_transit
                 THEN current_inventory[id].in_transit_qty ELSE 0))
  ELSE 0

\* The order-up-to level of item p at a service level as the claims define it:
\* S = mean_d x H + Z x std_d x sqrt(H), H = max(1, lead time + review period),
\* (mean_d, std_d) being the pair st that _hist_daily_stats returned, Z that of
\* _Z_BY_SERVICE, the arithmetic in floats.
LevelS(st, p, service_level) ==
  LET h  == FromInt[Max(1, Max(0, OrElse(p.order_lead_time_days, 0))
                           + last.args.review_period_days)]
      z  == FromRat[Z_BY_SERVICE[service_level], 1000]
  IN FAdd[FMul[st.mean, h], FMul[FMul[z, st.std], FSqrt[h]]]

\* The raw order quantity max(0, ceil(S - available)).
LevelRaw(st, p, service_level) ==
  LET S == LevelS(st, p, service_level)
      a == FromInt[StartStock(p.item_id)]
  IN IF FLeq[a, S] THEN FloatCeil[FAbsDiff[S, a]] ELSE 0

BatchIds(data) == {data[i].item_id : i \in 1..Len(data)}
LastOf(data, id) ==
  data[CHOOSE i \in 1..Len(data) :
         /\ data[i].item_id = id
         /\ \A j \in (i + 1)..Len(data) : data[j].item_id # id]
RecOf(params, id) == params[CHOOSE i \in 1..Len(params) : params[i].item_id = id]
\* The keys of the data of load_sales_forecasts_n12, and the list given for a key.
PoolKeys(data) == {data[i][1] : i \in 1..Len(data)}
PoolOf(data, k) == data[CHOOSE i \in 1..Len(data) : data[i][1] = k][2]

\* rec is the record the dict d stands for
IsRecordOf(rec, d, required, defaults) ==
  /\ Constructs(d, required, defaults)
  /\ rec = Construct(d, required, defaults)
\* recs is the list of records the list of dicts ds stands for
IsPoolOf(recs, ds) ==
  /\ Len(recs) = Len(ds)
  /\ \A i \in 1..Len(ds) :
       IsRecordOf(recs[i], ds[i], MonthlySalesForecastFields, NoDefaults)

Stored(data, required, defaults) ==
  LET bad == {i \in 1..Len(data) : ~Constructs(data[i], required, defaults)}
  IN IF bad = {} THEN data
     ELSE SubSeq(data, 1, (CHOOSE i \in bad : \A j \in bad : i <= j) - 1)
\* The same for the data of load_sales_forecasts_n12: the keys before the first
\* key whose list has a record that cannot be constructed.
StoredPools(data) ==
  LET bad == {i \in 1..Len(data) :
                \E j \in 1..Len(data[i][2]) :
                  ~Constructs(data[i][2][j], MonthlySalesForecastFields, NoDefaults)}
  IN IF bad = {} THEN data
     ELSE SubSeq(data, 1, (CHOOSE i \in bad : \A j \in bad : i <= j) - 1)

MaxRaw == 12

\* max_stock_cover_months: left out, None, or a number of months
CapCovers == {None, FZero, FromRat[1, 2], FromRat[6, 10], FromInt[1], FromRat[3, 2],
              FromInt[2]}
\* shelf_life_days: None or a number of days
CapShelves == {None, FZero, FromInt[20], FromInt[45], FromInt[100]}
\* monthly demand; 0.6 * (35 / 3) is 6.999999999999999
CapDemands == {FZero, FromInt[2], FromInt[3], FromRat[10, 3], FromRat[7, 2], FromInt[5],
               FromRat[35, 3]}

CapDicts ==
  {ItemDict("A", <<15>>, <<0>>, <<1>>, shelf) : shelf \in CapShelves}
  \cup {WithCover(ItemDict("A", <<15>>, <<0>>, <<1>>, shelf), cover) :
          shelf \in CapShelves, cover \in CapCovers}

InitCap ==
  /\ sales_history = <<>>
  /\ item_params = <<>>
  /\ current_inventory = NoInventory
  /\ sales_forecasts_n12 = NoInventory
  /\ forecasts = <<>>
  /\ last = [op |-> "__init__", args |-> <<>>, raised |-> FALSE, repeat |-> FALSE]
  /\ calls = 0
  /\ probe \in [fn : {"cap"}, d : CapDicts, raw_qty : 0..MaxRaw,
                monthly_demand : CapDemands, done : {FALSE}, result : {0}]

\* the item as load_item_parameters stores it
ProbeItem == load_item_parameters(<<>>, <<probe.d>>).value[1]

ApplyCap ==
  /\ ~probe.done
  /\ probe' = [probe EXCEPT
                 !.done = TRUE,
                 !.result = cap_by_cover_and_shelf(probe.raw_qty, ProbeItem,
                                                   probe.monthly_demand)]
  /\ UNCHANGED <<sales_history, item_params, current_inventory,
                 sales_forecasts_n12, forecasts, last, calls>>

NextCap == ApplyCap

SpecCap == InitCap /\ [][NextCap]_vars

HasCoverCap == ProbeItem.max_stock_cover_months # None
               /\ FPos(ProbeItem.max_stock_cover_months)
HasShelfCap == ProbeItem.shelf_life_days # None /\ FPos(ProbeItem.shelf_life_days)

\* max_stock_cover_months x monthly demand and shelf_life_days/30 x monthly
\* demand, as floats
CoverCap == FMul[ProbeItem.max_stock_cover_months, probe.monthly_demand]
ShelfCap == FMul[FDiv[ProbeItem.shelf_life_days, FromInt[30]], probe.monthly_demand]
Whole(x) == FloatFloor[x]

\* the largest candidate cap
LargestCap ==
  IF HasCoverCap /\ (~HasShelfCap \/ FLeq[ShelfCap, CoverCap]) THEN CoverCap
  ELSE ShelfCap

\* the case C9 is about: positive demand and at least one cap
CapCase ==
  /\ probe.done
  /\ FPos(probe.monthly_demand)
  /\ HasCoverCap \/ HasShelfCap

\* C9 as stated: the result is min(raw, C), C the largest of
\* max_stock_cover_months x demand and shelf_life_days/30 x demand.
C9_ResultIsMinOfRawAndCap ==
  CapCase =>
    IF FLeq[FromInt[probe.raw_qty], LargestCap]
    THEN probe.result = probe.raw_qty
    ELSE FromInt[probe.result] = LargestCap

\* C9 as amended: the result is min(raw, C), C the largest of the candidate
\* caps, each computed in floating point and truncated to an integer; the
\* larger cap is the one applied and the result never exceeds raw.
C9_ResultIsMinOfRawAndWholeCap ==
  CapCase =>
    /\ probe.result = Min(probe.raw_qty, Whole(LargestCap))
    /\ probe.result <= probe.raw_qty
    /\ (HasCoverCap /\ probe.raw_qty >= Whole(CoverCap)) => probe.result >= Whole(CoverCap)
    /\ (HasShelfCap /\ probe.raw_qty >= Whole(ShelfCap)) => probe.result >= Whole(ShelfCap)

\* C9 witness: both caps exist and differ, raw exceeds both, and the larger
\* one is the result.
C9_Witness ==
  /\ CapCase
  /\ HasCoverCap /\ HasShelfCap
  /\ Whole(CoverCap) # Whole(ShelfCap)
  /\ probe.raw_qty > Whole(LargestCap)
  /\ probe.result = Whole(LargestCap)

\* C10: an item loaded with no max_stock_cover_months (the key left
\* out, or None) and no shelf_life_days is never capped.
C10_AbsentCoverIsUncapped ==
  (/\ probe.done
   /\ probe.d.shelf_life_days = None
   /\ \/ "max_stock_cover_months" \notin DOMAIN probe.d
      \/ probe.d.max_stock_cover_months = None)
  => probe.result = probe.raw_qty


(***************************************************************************)
(* The example item SKU1: twelve months of sales with mean 300 and sample  *)
(* standard deviation 30, no stock and no forecast records.  The           *)
(* forecaster starts with the example catalog as the four loaders leave    *)
(* it, and generate_purchase_plan is called on it.                         *)
(***************************************************************************)
\* the monthly sales of 2024: sum 3600, squared deviations from 300 sum to 9900
Sku1Sales == <<345, 255, 315, 285, 315, 285, 345, 255, 315, 285, 315, 285>>

Sku1History(reversed, companion) ==
  LET fwd == [m \in 1..Len(Sku1Sales) |-> SaleDict(<<2024, m>>, "SKU1", Sku1Sales[m])]
      rev == [m \in 1..Len(fwd) |-> fwd[Len(fwd) + 1 - m]]
  IN (IF companion THEN <<SaleDict(<<2024, 12>>, "B", 25)>> ELSE <<>>)
     \o (IF reversed THEN rev ELSE fwd)

Sku1Dict == WithCover(ItemDict("SKU1", <<15>>, <<50>>, <<25>>, None), FromInt[2])

\* the inventory batch: no record of SKU1, or one with no stock on hand
Sku1Inventories ==
  { <<>>, <<InvDict("SKU1", 0, 0, 0)>>, <<InvDict("SKU1", 0, 80, 5)>> }

\* the forecaster after load_sales_history, load_item_parameters,
\* load_sales_forecasts_n12 and load_current_inventory; SKU1 has no forecast
\* records; calls counts the calls that follow
InitSku1 ==
  \E reversed \in BOOLEAN, companion \in BOOLEAN, inventory \in Sku1Inventories :
    /\ sales_history = load_sales_history(<<>>, Sku1History(reversed, companion)).value
    /\ item_params = load_item_parameters(<<>>,
                       (IF companion THEN <<ItemBoth("B")>> ELSE <<>>)
                       \o <<Sku1Dict>>).value
    /\ sales_forecasts_n12 =
         IF companion
         THEN load_sales_forecasts_n12(NoInventory,
                << <<"B", <<FcstDict(<<2025, 1>>, 45, 60)>> >> >>).value
         ELSE NoInventory
    /\ current_inventory = load_current_inventory(NoInventory, inventory).value
    /\ forecasts = <<>>
    /\ last = [op |-> "load_current_inventory", args |-> inventory,
               raised |-> FALSE, repeat |-> FALSE]
    /\ calls = 0
    /\ probe = NoProbe

NextSku1 == GeneratePurchasePlan

SpecSku1 == InitSku1 /\ [][NextSku1]_vars

\* the example is what was planned: SKU1 as the example gives it, planned with
\* a review period of 30 days at service level 0.95, no stock being available
Sku1Planned ==
  /\ Planned
  /\ "SKU1" \in Keys(item_params)
  /\ last.args.service_level = 95
  /\ last.args.review_period_days = 30
  /\ \/ "SKU1" \notin DOMAIN current_inventory
     \/ current_inventory["SKU1"].current_stock_qty
          + (IF last.args.include_in_transit
             THEN current_inventory["SKU1"].in_transit_qty ELSE 0) = 0

Sku1Item == item_params[CHOOSE i \in 1..Len(item_params) :
                          item_params[i].item_id = "SKU1"]
\* the pairs _hist_daily_stats("SKU1") can return
Sku1Stats == hist_daily_stats(sales_history, "SKU1")

\* C12: for SKU1 (lead time 15, minimum order 50, multiple 25, cover 2 months,
\* no shelf life, mean 300 and sample standard deviation 30 over 12 months, no
\* stock, no forecast records) planned with a review period of 30 days at
\* service level 0.95: the daily mean is 10 and the daily deviation 1, the cap
\* at the expected demand of 300 is 600 and leaves a raw quantity of 462 (S of
\* about 461 rounded up) as it is, which rounds to 475; the call returns, the
\* first row of SKU1 notes Z = 1.645, L = 15 and R = 30 (horizon 45) and its
\* optimized_order_qty is 475.
C12_Sku1Example ==
  Sku1Planned =>
    /\ \A st \in Sku1Stats :
         /\ st.mean = FromInt[10]
         /\ st.std = FromInt[1]
         /\ cap_by_cover_and_shelf(1000000, Sku1Item, FMul[st.mean, FromInt[30]]) = 600
         /\ cap_by_cover_and_shelf(462, Sku1Item, FMul[st.mean, FromInt[30]]) = 462
         /\ OrderQty(462, Sku1Item, FMul[st.mean, FromInt[30]]) = 475
    /\ ~last.raised
    /\ RowsOf("SKU1") # <<>>
    /\ RowsOf("SKU1")[1].notes = <<1645, 15, 30>>
    /\ RowsOf("SKU1")[1].optimized_order_qty = 475


(***************************************************************************)
(* Forecast selection: load_sales_forecasts_n12 on one pool, then          *)
(* _pick_monthly_forecast for item "A" and a target month.                 *)
(***************************************************************************)
\* the longest pool
MaxPool == 3

PickMonths == { <<2025, 1>>, <<2025, 2>> }
PickScores == {50, 70, 90}
\* the target months: one that pools have records for, one that none has
PickTargets == { <<2025, 1>>, <<2025, 3>> }

\* pools of up to MaxPool records; the quantity of a record is its position
PickPools ==
  UNION { { [i \in 1..n |-> FcstDict(ms[i], i, cs[i])] :
              ms \in [1..n -> PickMonths], cs \in [1..n -> PickScores] } :
          n \in 0..MaxPool }

InitPick ==
  /\ sales_history = <<>>
  /\ item_params = <<>>
  /\ current_inventory = NoInventory
  /\ sales_forecasts_n12 = NoInventory
  /\ forecasts = <<>>
  /\ last = [op |-> "__init__", args |-> <<>>, raised |-> FALSE, repeat |-> FALSE]
  /\ calls = 0
  /\ probe \in [fn : {"pick"}, pool : PickPools, owner : {"A", "B"},
                month : PickTargets, done : {FALSE}, result : {None}]

\* the forecasts after loading the pool under its owner
PickForecasts ==
  load_sales_forecasts_n12(NoInventory, << <<probe.owner, probe.pool>> >>).value

ApplyPick ==
  /\ ~probe.done
  /\ probe' = [probe EXCEPT
                 !.done = TRUE,
                 !.result = pick_monthly_forecast(PickForecasts, "A", probe.month)]
  /\ UNCHANGED <<sales_history, item_params, current_inventory,
                 sales_forecasts_n12, forecasts, last, calls>>

NextPick == ApplyPick

SpecPick == InitPick /\ [][NextPick]_vars

\* the pool of item "A": empty when the item has none
PoolOfA == IF "A" \in DOMAIN PickForecasts THEN PickForecasts["A"] ELSE <<>>
\* the positions of the records for the target month, and of the candidates
ExactIn(pool) == {i \in 1..Len(pool) : pool[i].month = probe.month}
CandidatesIn(pool) == IF ExactIn(pool) # {} THEN ExactIn(pool) ELSE 1..Len(pool)

\* C14: _pick_monthly_forecast returns None exactly when the pool of the item
\* is empty or missing; otherwise it returns a record of the target month if
\* there is one, whose confidence_score is at least that of every other record
\* of the target month, or else a record whose confidence_score is at least
\* that of every record of the pool; of the records tied at the highest score
\* it returns the earliest in input order.
C14_PickIsFirstBestCandidate ==
  (probe.fn = "pick" /\ probe.done) =>
    LET pool == PoolOfA
        cand == CandidatesIn(pool)
    IN /\ (probe.result = None) <=> (pool = <<>>)
       /\ probe.result # None =>
            \E i \in cand :
              /\ probe.result[1] = pool[i]
              /\ ExactIn(pool) # {} => probe.result[1].month = probe.month
              /\ \A j \in cand : pool[j].confidence_score <= pool[i].confidence_score
              /\ \A j \in cand : pool[j].confidence_score = pool[i].confidence_score
                                   => i <= j

\* C14 witness: two records of the target month tie at the highest score among
\* them, a record of another month scores higher, and the first of the two is
\* returned.
C14_Witness ==
  /\ probe.fn = "pick" /\ probe.done /\ probe.result # None
  /\ LET pool == PoolOfA
     IN \E i, j \in ExactIn(pool) :
          /\ i < j
          /\ pool[i].confidence_score = pool[j].confidence_score
          /\ \E k \in 1..Len(pool) :
               pool[k].confidence_score > pool[i].confidence_score
          /\ probe.result[1] = pool[i]

(***************************************************************************)
(* The order of one loaded item: load_item_parameters on a single record,  *)
(* then _cap_by_cover_and_shelf and _round_to_moq_multiple on the capped   *)
(* quantity.                                                               *)
(***************************************************************************)
OrderCovers  == {None, FromRat[1, 4], FromRat[6, 10], FromInt[1], FromInt[2]}
OrderShelves == {None, FromInt[20]}
OrderDemands == {FromInt[2], FromRat[10, 3], FromInt[5], FromRat[35, 3]}
\* minimum_order_qty >= 0 and order_multiple >= 1
OrderMoqs    == {0, 4, 7}
OrderMults   == {1, 3, 5}

OrderDicts ==
  {WithCover(ItemDict("A", <<15>>, <<moq>>, <<mult>>, shelf), cover) :
     moq \in OrderMoqs, mult \in OrderMults, shelf \in OrderShelves,
     cover \in OrderCovers}

InitOrder ==
  /\ sales_history = <<>>
  /\ item_params = <<>>
  /\ current_inventory = NoInventory
  /\ sales_forecasts_n12 = NoInventory
  /\ forecasts = <<>>
  /\ last = [op |-> "__init__", args |-> <<>>, raised |-> FALSE, repeat |-> FALSE]
  /\ calls = 0
  /\ probe \in [fn : {"order"}, d : OrderDicts, raw_qty : 0..MaxRaw,
                monthly_demand : OrderDemands, done : {FALSE}, result : {0}]

ApplyOrder ==
  /\ ~probe.done
  /\ probe' = [probe EXCEPT
                 !.done = TRUE,
                 !.result = OrderQty(probe.raw_qty, ProbeItem, probe.monthly_demand)]
  /\ UNCHANGED <<sales_history, item_params, current_inventory,
                 sales_forecasts_n12, forecasts, last, calls>>

NextOrder == ApplyOrder

SpecOrder == InitOrder /\ [][NextOrder]_vars

\* C18: rounding comes after capping, so the cap bounds the order only up to
\* packaging: when a cap C, the largest candidate cap, applies, the order is at
\* most max(minimum_order_qty, C + order_multiple - 1), and it is 0 when C is 0.
C18_CapBoundsOrderUpToPackaging ==
  (probe.fn = "order" /\ CapCase) =>
    LET C == Whole(LargestCap)
    IN /\ probe.result <= Max(ProbeItem.minimum_order_qty[1],
                              C + ProbeItem.order_multiple[1] - 1)
       /\ C = 0 => probe.result = 0

\* C18 witness: the raw quantity is above a cap that is not a multiple of the
\* pack, and the order is rounded to above the cap and the minimum order.
C18_Witness ==
  /\ probe.fn = "order" /\ CapCase
  /\ probe.raw_qty > Whole(LargestCap)
  /\ Whole(LargestCap) % ProbeItem.order_multiple[1] # 0
  /\ probe.result > Whole(LargestCap)
  /\ probe.result > ProbeItem.minimum_order_qty[1]

\* C3: for every combination of minimum_order_qty >= 0 and order_multiple >= 1,
\* the order quantity _round_to_moq_multiple returns for the capped quantity,
\* which is the optimized_order_qty of a row, is 0, or is an exact multiple of
\* order_multiple and at least max(minimum_order_qty, order_multiple).
C3_OrderIsPlaceable ==
  (/\ probe.fn = "order" /\ probe.done
   /\ ProbeItem.minimum_order_qty # None /\ ProbeItem.minimum_order_qty[1] >= 0
   /\ ProbeItem.order_multiple # None /\ ProbeItem.order_multiple[1] >= 1)
  => \/ probe.result = 0
     \/ /\ probe.result % ProbeItem.order_multiple[1] = 0
        /\ probe.result >= Max(ProbeItem.minimum_order_qty[1],
                               ProbeItem.order_multiple[1])

====
